---- MODULE Spec2Model ----
(***************************************************************************)
(* Control logic of the two-channel function generator front panel         *)
(* (src/unnamed/part_000): settings record, EEPROM persistence with CRC8,  *)
(* debounced frequency commit, navigation state machine and output         *)
(* control, as a state machine of setup(), loop() and the encoder          *)
(* interrupt.                                                              *)
(***************************************************************************)
EXTENDS Integers, Sequences, FiniteSets, TLC

(***************************************************************************)
(* Program constants                                                       *)
(***************************************************************************)
maxFreq == 1000000
maxFreqStep == 100000
encFreqStep == 1000
freqUpdateDelay == 400
channelFreqs == <<10000, 1000>>

\* enum Waveform : byte
SIN == 0
CLK == 1
TRI == 2
\* enum OutputStatus : byte
OFF == 0
ON == 1
\* enum MenuItem : byte
Function == 0
Frequency == 1
Phase == 2
Version == 3
\* enum DisplayFrame : byte
DisplayFrame == {"HOME_PAGE", "MENU", "SETTING"}
\* RotaryEncoder::Direction
Direction == {"NOROTATION", "CLOCKWISE", "COUNTERCLOCKWISE"}
\* sizeof(waveformStr) / sizeof(char *) and sizeof(menuItmStr) / sizeof(char *)
waveformStr == <<"SIN", "CLK", "TRI">>
menuItmStr == <<"Function", "Frequency", "Phase", "Version">>

(***************************************************************************)
(* Bounds of the model                                                     *)
(***************************************************************************)
\* encoder detents the interrupt records in one behaviour
MaxDetents == 3
\* longest byte block handed to crc8block in the checksum specification
MaxLen == 2

(***************************************************************************)
(* Machine arithmetic.  unsigned long and long are 32 bits wide on the AVR.*)
(* Every word the handlers compute with stays below 2^30 (the persisted    *)
(* records of Boots are chosen so), hence sums and differences of two      *)
(* words are exact as long values and wrap nowhere.  A word read from a    *)
(* record whose top bit is set is held as its value as a long (the same 32 *)
(* bits); such words occur in rejected records only and are copied, never  *)
(* computed with.                                                          *)
(***************************************************************************)
RECURSIVE Xor(_, _)
Xor(a, b) == IF a = 0 THEN b
             ELSE IF b = 0 THEN a
             ELSE ((a + b) % 2) + 2 * Xor(a \div 2, b \div 2)

RECURSIVE Pow10(_)
Pow10(k) == IF k = 0 THEN 1 ELSE 10 * Pow10(k - 1)

\* (unsigned int) log10(n) for n >= 1: the integer part of the decimal logarithm
RECURSIVE Log10(_)
Log10(n) == IF n < 10 THEN 0 ELSE 1 + Log10(n \div 10)

(***************************************************************************)
(* CRC8 checksum                                                           *)
(***************************************************************************)
\* the same pass with the polynomial 0x07
crc8shift_poly07(crc) ==
    IF crc >= 128 THEN Xor((crc * 2) % 256, 7) ELSE (crc * 2) % 256

\* one pass of the inner for loop: crc = (crc & 0x80) ? (crc << 1) ^ 0x31 : crc << 1
crc8shift(crc) ==
    IF crc >= 128 THEN Xor((crc * 2) % 256, 49) ELSE (crc * 2) % 256

\* the inner for loop, 8 passes, for every value of the running crc
crc8byte ==
    [c \in 0..255 |->
        crc8shift(crc8shift(crc8shift(crc8shift(
            crc8shift(crc8shift(crc8shift(crc8shift(c))))))))]

\* the while loop from a running crc on: crc ^= *pcBlock++, then the for loop
RECURSIVE crc8from(_, _)
crc8from(crc, pcBlock) ==
    IF pcBlock = <<>> THEN crc
    ELSE crc8from(crc8byte[Xor(crc, Head(pcBlock))], Tail(pcBlock))

crc8block(pcBlock) == crc8from(255, pcBlock)

(***************************************************************************)
(* The Settings record and its image in memory (little endian, packed)     *)
(***************************************************************************)
Bytes4(v) == << v % 256, (v \div 256) % 256, (v \div 65536) % 256,
                (v \div 16777216) % 256 >>
Word4(b, i) ==
    b[i] + 256 * b[i + 1] + 65536 * b[i + 2]
        + 16777216 * (IF b[i + 3] < 128 THEN b[i + 3] ELSE b[i + 3] - 256)

\* (byte *)&settings, sizeof(Settings) bytes
SettingsBytes(s) ==
    Bytes4(s.frequency[1]) \o Bytes4(s.frequency[2]) \o Bytes4(s.freqStep)
        \o << s.waveform, s.channel, s.checksum >>

\* the struct read back from sizeof(Settings) bytes
SettingsOf(b) ==
    [ frequency |-> << Word4(b, 1), Word4(b, 5) >>,
      freqStep  |-> Word4(b, 9),
      waveform  |-> b[13],
      channel   |-> b[14],
      checksum  |-> b[15] ]

SizeofSettings == Len(SettingsBytes(SettingsOf([i \in 1..15 |-> 0])))

\* settings = {channelFreqs[0], channelFreqs[1], encFreqStep, SIN, 0, 0}
StaticSettings ==
    [ frequency |-> << channelFreqs[1], channelFreqs[2] >>,
      freqStep  |-> encFreqStep,
      waveform  |-> SIN,
      channel   |-> 0,
      checksum  |-> 0 ]

\* the zero-initialised global of the ENABLE_EEPROM build
ZeroSettings == SettingsOf([i \in 1..15 |-> 0])

(***************************************************************************)
(* The program state the handlers work on.  m is a record of the globals,  *)
(* of the registers of the AD9833 (sigGen), of the commands sent to it by  *)
(* the step being taken (cmds) and of the frame last drawn in full (lcd).  *)
(* sinceFreqUpdate is millis() - lastFreqUpdate, the one way the program   *)
(* reads the two counters; it is kept exactly up to AgeCap.                *)
(***************************************************************************)

\* sigGen.setFrequency(channel ? CHAN_1 : CHAN_0, freq)
setADFreq(m, channel, freq) ==
    [m EXCEPT !.sigGen.freq[IF channel # 0 THEN 2 ELSE 1] = freq,
              !.cmds = Append(@, <<"setFrequency", IF channel # 0 THEN 1 ELSE 0, freq>>)]

\* sigGen.setActiveFrequency(CHAN_1 / CHAN_0)
setADChannel(m, channel) ==
    [m EXCEPT !.sigGen.channel = IF channel # 0 THEN 1 ELSE 0,
              !.cmds = Append(@, <<"setActiveFrequency", IF channel # 0 THEN 1 ELSE 0>>)]

\* sigGen.setMode(mode)
setMode(m, mode) ==
    [m EXCEPT !.sigGen.mode = mode, !.cmds = Append(@, <<"setMode", mode>>)]

\* a setADSigMode that knows the sine only
setADSigMode_sine(m, curMode) == setMode(m, "MODE_SINE")

setADSigMode(m, curMode) ==
    CASE curMode = SIN -> setMode(m, "MODE_SINE")
      [] curMode = CLK -> setMode(m, "MODE_SQUARE1")
      [] curMode = TRI -> setMode(m, "MODE_TRIANGLE")
      [] OTHER -> m

\* a toggleOutput that sends the mode of the waveform whatever the new status
toggleOutput_alwaysOn(m) ==
    LET t == [m EXCEPT !.outputStat = IF m.outputStat # 0 THEN OFF ELSE ON]
    IN  setADSigMode(t, t.settings.waveform)

toggleOutput(m) ==
    LET t == [m EXCEPT !.outputStat = IF m.outputStat # 0 THEN OFF ELSE ON]
    IN  IF t.outputStat = OFF THEN setMode(t, "MODE_OFF")
        ELSE setADSigMode(t, t.settings.waveform)

\* an updateDisplay that clears the flag and draws nothing
updateDisplay_blank(m) == [m EXCEPT !.isDispDirty = FALSE]

updateDisplay(m) == [m EXCEPT !.lcd = m.curDispFrame, !.isDispDirty = FALSE]

\* a changeFreq that lets the sum through unsaturated
raiseFreq_unsaturated(curFreq, freqStep) == curFreq + freqStep

\* lines 576-577: long newFreq = *curFreq + freqStep, saturating at maxFreq
raiseFreq(curFreq, freqStep) ==
    LET newFreq == curFreq + freqStep
    IN  IF newFreq < maxFreq THEN newFreq ELSE maxFreq

\* lines 581-582: long newFreq = *curFreq - freqStep, or the step when not positive
lowerFreq(curFreq, freqStep) ==
    LET newFreq == curFreq - freqStep
    IN  IF newFreq > 0 THEN newFreq ELSE freqStep

\* lines 572-583: the new frequency of the active channel
turnFreq(m, rotDir) ==
    LET c == m.settings.channel + 1
        curFreq == m.settings.frequency[c]
    IN  [m EXCEPT !.settings.frequency[c] =
            CASE rotDir = "CLOCKWISE" -> raiseFreq(curFreq, m.settings.freqStep)
              [] rotDir = "COUNTERCLOCKWISE" -> lowerFreq(curFreq, m.settings.freqStep)
              [] OTHER -> curFreq]

\* a changeFreq that forgets lastFreqUpdate = millis()
changeFreq_unstamped(m, rotDir) ==
    [turnFreq(m, rotDir) EXCEPT !.isFrequencyDirty = TRUE]

\* lastFreqUpdate = millis() makes millis() - lastFreqUpdate zero
changeFreq(m, rotDir) ==
    [turnFreq(m, rotDir) EXCEPT !.sinceFreqUpdate = 0, !.isFrequencyDirty = TRUE]

\* a changeStep that adds and subtracts encFreqStep
changeStep_linear(m, rotDir) ==
    LET step == m.settings.freqStep
    IN  [m EXCEPT !.settings.freqStep =
            IF rotDir = "CLOCKWISE" THEN step + encFreqStep
            ELSE IF step > encFreqStep THEN step - encFreqStep ELSE step]

\* a changeStep whose floor is idc = 1
changeStep_floor10(m, rotDir) ==
    LET idc == Log10(m.settings.freqStep)
        new == IF rotDir = "CLOCKWISE"
               THEN (IF idc < Log10(maxFreqStep) THEN idc + 1 ELSE Log10(maxFreqStep))
               ELSE (IF idc > 1 THEN idc - 1 ELSE 1)
    IN  [m EXCEPT !.settings.freqStep = Pow10(new)]

changeStep(m, rotDir) ==
    LET idc == Log10(m.settings.freqStep)
        new == IF rotDir = "CLOCKWISE"
               THEN (IF idc < Log10(maxFreqStep) THEN idc + 1 ELSE Log10(maxFreqStep))
               ELSE (IF idc > 1 THEN idc - 1 ELSE 0)
    IN  [m EXCEPT !.settings.freqStep = Pow10(new)]

\* a changeMenu that wraps around at both ends
changeMenu_wrap(m, rotDir) ==
    LET arrLen == Len(menuItmStr)
        sel == m.curMenuSel
        new == CASE rotDir = "CLOCKWISE" -> (sel + 1) % arrLen
                 [] rotDir = "COUNTERCLOCKWISE" -> (sel + arrLen - 1) % arrLen
                 [] OTHER -> sel
    IN  [m EXCEPT !.curMenuSel = new, !.isDispDirty = TRUE]

changeMenu(m, rotDir) ==
    LET arrLen == Len(menuItmStr)
        sel == m.curMenuSel
        new == CASE rotDir = "CLOCKWISE" ->
                      IF sel < arrLen - 1 THEN sel + 1 ELSE Version
                 [] rotDir = "COUNTERCLOCKWISE" ->
                      IF sel > 0 THEN sel - 1 ELSE Function
                 [] OTHER -> sel
    IN  [m EXCEPT !.curMenuSel = new, !.isDispDirty = TRUE]

\* a handleSettingChange that toggles the output in every setting but Frequency
handleSettingChange_all(m, rotDir) ==
    LET len == Len(waveformStr)
        w == m.settings.waveform
        new == CASE rotDir = "CLOCKWISE" -> IF w + 1 < len THEN w + 1 ELSE 0
                 [] rotDir = "COUNTERCLOCKWISE" -> IF w > 0 THEN w - 1 ELSE len - 1
                 [] OTHER -> w
    IN  CASE m.curMenuSel = Function ->
                 toggleOutput([m EXCEPT !.settings.waveform = new])
          [] m.curMenuSel = Frequency ->
                 IF m.curRow = 0 THEN changeFreq(m, rotDir) ELSE changeStep(m, rotDir)
          [] OTHER -> toggleOutput(m)

\* a handleSettingChange that stops at the first and the last waveform
handleSettingChange_clamp(m, rotDir) ==
    LET len == Len(waveformStr)
        w == m.settings.waveform
        new == CASE rotDir = "CLOCKWISE" -> IF w + 1 < len THEN w + 1 ELSE w
                 [] rotDir = "COUNTERCLOCKWISE" -> IF w > 0 THEN w - 1 ELSE w
                 [] OTHER -> w
    IN  CASE m.curMenuSel = Function ->
                 toggleOutput([m EXCEPT !.settings.waveform = new])
          [] m.curMenuSel = Frequency ->
                 IF m.curRow = 0 THEN changeFreq(m, rotDir) ELSE changeStep(m, rotDir)
          [] OTHER -> m

handleSettingChange(m, rotDir) ==
    LET len == Len(waveformStr)
        w == m.settings.waveform
        new == CASE rotDir = "CLOCKWISE" -> IF w + 1 < len THEN w + 1 ELSE 0
                 [] rotDir = "COUNTERCLOCKWISE" -> IF w > 0 THEN w - 1 ELSE len - 1
                 [] OTHER -> w
    IN  CASE m.curMenuSel = Function ->
                 toggleOutput([m EXCEPT !.settings.waveform = new])
          [] m.curMenuSel = Frequency ->
                 IF m.curRow = 0 THEN changeFreq(m, rotDir) ELSE changeStep(m, rotDir)
          [] OTHER -> m

encRotate(m, rotDir) ==
    CASE m.curDispFrame = "HOME_PAGE" -> changeFreq(m, rotDir)
      [] m.curDispFrame = "MENU" -> changeMenu(m, rotDir)
      [] m.curDispFrame = "SETTING" -> handleSettingChange(m, rotDir)

\* an encPress that stays in every Setting
encPress_stay(m) ==
    CASE m.curDispFrame = "HOME_PAGE" -> toggleOutput(m)
      [] m.curDispFrame = "MENU" ->
             [m EXCEPT !.curDispFrame = "SETTING", !.isDispDirty = TRUE]
      [] m.curDispFrame = "SETTING" ->
             IF m.curMenuSel = Frequency
             THEN [m EXCEPT !.curRow = IF m.curRow # 0 THEN 0 ELSE 1]
             ELSE m

\* an encPress that toggles the edit row in every Setting
encPress_rows(m) ==
    CASE m.curDispFrame = "HOME_PAGE" -> toggleOutput(m)
      [] m.curDispFrame = "MENU" ->
             [m EXCEPT !.curDispFrame = "SETTING", !.isDispDirty = TRUE]
      [] m.curDispFrame = "SETTING" ->
             IF m.curMenuSel = Frequency
             THEN [m EXCEPT !.curRow = IF m.curRow # 0 THEN 0 ELSE 1]
             ELSE [m EXCEPT !.curRow = IF m.curRow # 0 THEN 0 ELSE 1,
                            !.curDispFrame = "MENU", !.isDispDirty = TRUE]

\* an encPress that leaves every Setting for the Menu
encPress_leave(m) ==
    CASE m.curDispFrame = "HOME_PAGE" -> toggleOutput(m)
      [] m.curDispFrame = "MENU" ->
             [m EXCEPT !.curDispFrame = "SETTING", !.isDispDirty = TRUE]
      [] m.curDispFrame = "SETTING" ->
             [m EXCEPT !.curDispFrame = "MENU", !.isDispDirty = TRUE]

encPress(m) ==
    CASE m.curDispFrame = "HOME_PAGE" -> toggleOutput(m)
      [] m.curDispFrame = "MENU" ->
             [m EXCEPT !.curDispFrame = "SETTING", !.isDispDirty = TRUE]
      [] m.curDispFrame = "SETTING" ->
             IF m.curMenuSel = Frequency
             THEN [m EXCEPT !.curRow = IF m.curRow # 0 THEN 0 ELSE 1]
             ELSE [m EXCEPT !.curDispFrame = "MENU", !.isDispDirty = TRUE]

\* an encDoublePress that does not tell the AD9833
encDoublePress_silent(m) ==
    IF m.curDispFrame = "HOME_PAGE"
    THEN [m EXCEPT !.settings.channel = IF m.settings.channel # 0 THEN 0 ELSE 1]
    ELSE m

encDoublePress(m) ==
    IF m.curDispFrame = "HOME_PAGE"
    THEN LET t == [m EXCEPT !.settings.channel = IF m.settings.channel # 0 THEN 0 ELSE 1]
         IN  setADChannel(t, t.settings.channel)
    ELSE m

\* an encLongPress that leaves the selection and the row as they are
encLongPress_keep(m) ==
    LET t == CASE m.curDispFrame = "HOME_PAGE" -> [m EXCEPT !.curDispFrame = "MENU"]
               [] m.curDispFrame = "MENU" -> [m EXCEPT !.curDispFrame = "HOME_PAGE"]
               [] m.curDispFrame = "SETTING" ->
                      IF m.curMenuSel = Frequency
                      THEN [m EXCEPT !.curDispFrame = "MENU"]
                      ELSE m
    IN  [t EXCEPT !.isDispDirty = TRUE]

encLongPress(m) ==
    LET t == CASE m.curDispFrame = "HOME_PAGE" -> [m EXCEPT !.curDispFrame = "MENU"]
               [] m.curDispFrame = "MENU" ->
                      [m EXCEPT !.curMenuSel = Function, !.curDispFrame = "HOME_PAGE"]
               [] m.curDispFrame = "SETTING" ->
                      IF m.curMenuSel = Frequency
                      THEN [m EXCEPT !.curDispFrame = "MENU", !.curRow = 0]
                      ELSE m
    IN  [t EXCEPT !.isDispDirty = TRUE]

\* a commit test written >= instead of >
commitFreq_atDeadline(m) ==
    IF m.isFrequencyDirty /\ m.sinceFreqUpdate >= freqUpdateDelay
    THEN [setADFreq(m, m.settings.channel, m.settings.frequency[m.settings.channel + 1])
            EXCEPT !.isFrequencyDirty = FALSE]
    ELSE m

\* a loop() without the RUNNING_FREQUENCY block
commitFreq_never(m) == m

\* the RUNNING_FREQUENCY block of loop()
commitFreq(m) ==
    IF m.isFrequencyDirty /\ m.sinceFreqUpdate > freqUpdateDelay
    THEN [setADFreq(m, m.settings.channel, m.settings.frequency[m.settings.channel + 1])
            EXCEPT !.isFrequencyDirty = FALSE]
    ELSE m

\* if (isDispDirty) updateDisplay();
refresh(m) == IF m.isDispDirty THEN updateDisplay(m) ELSE m

(***************************************************************************)
(* Persistence (ENABLE_EEPROM).  e is the content of the EEPROM block at   *)
(* EEPROM_ADDRESS_SHIFT; the functions return the new settings and, for    *)
(* the write, the new block.                                               *)
(***************************************************************************)
\* settings.checksum = crc8block(&settings, sizeof(Settings) - 1)
withChecksum(s) ==
    [s EXCEPT !.checksum = crc8block(SubSeq(SettingsBytes(s), 1, SizeofSettings - 1))]

\* the block is written before the checksum is stored in the record
writeToEEPROM_stale(s) == [settings |-> withChecksum(s), eeprom |-> SettingsBytes(s)]

writeToEEPROM(s) == [settings |-> withChecksum(s), eeprom |-> SettingsBytes(withChecksum(s))]

readFromEEPROM(e) ==
    LET s == SettingsOf(e)
    IN  [settings |-> s,
         ok |-> crc8block(SubSeq(SettingsBytes(s), 1, SizeofSettings - 1)) = s.checksum]

resetSettings(s) ==
    LET s1 == [s  EXCEPT !.frequency[1] = channelFreqs[1]]
        s2 == [s1 EXCEPT !.frequency[1] = channelFreqs[2]]
    IN  [s2 EXCEPT !.freqStep = encFreqStep, !.waveform = CLK, !.channel = 0]

(***************************************************************************)
(* State                                                                   *)
(***************************************************************************)
VARIABLES
    ENABLE_EEPROM,     \* the build option of line 16
    eeprom,            \* the sizeof(Settings) bytes at EEPROM_ADDRESS_SHIFT
    settings, outputStat, curMenuSel, curDispFrame, curRow,
    isDispDirty, isFrequencyDirty,
    sinceFreqUpdate,   \* millis() - lastFreqUpdate
    sigGen,            \* registers of the AD9833: freq[2], mode, channel
    cmds,              \* commands the last step sent to the AD9833
    lcd,               \* the frame updateDisplay drew last
    pc,                \* "setup", "loop" (top of loop) or "rotate" (line 228)
    encPos, newPos,    \* loop's static encPos and local newPos
    positionExtPrev,   \* the encoder's position at the last getDirection()
    detents,           \* detents recorded by the interrupt so far
    nWrites,           \* calls of writeToEEPROM since power-on
    sinceStaged,       \* time since changeFreq ran last, NEVER before that
    polled,            \* the commit test of loop ran since time or staging moved
    lastUsed,          \* in setup() after a power cycle: the settings in use before it
    ret                \* what the persistence call made last returned

vars == << ENABLE_EEPROM, eeprom, settings, outputStat, curMenuSel, curDispFrame,
           curRow, isDispDirty, isFrequencyDirty, sinceFreqUpdate, sigGen, cmds,
           lcd, pc, encPos, newPos, positionExtPrev, detents, nWrites,
           sinceStaged, polled, lastUsed, ret >>

\* The three encoder positions are kept relative to the encoder's own position
\* (enc.getPosition() is 0): the program only compares them with each other.

NEVER == 0 - 1
\* time passes in steps of half the debounce window, so that a loop iteration
\* can fall before, exactly on and after lastFreqUpdate + freqUpdateDelay
TimeStep == freqUpdateDelay \div 2
AgeCap == freqUpdateDelay + TimeStep
Later(age, dt) == IF age + dt > AgeCap THEN AgeCap ELSE age + dt

\* the globals as the record the handlers work on, with no command sent yet
M == [ settings |-> settings, outputStat |-> outputStat, curMenuSel |-> curMenuSel,
       curDispFrame |-> curDispFrame, curRow |-> curRow, isDispDirty |-> isDispDirty,
       isFrequencyDirty |-> isFrequencyDirty, sinceFreqUpdate |-> sinceFreqUpdate,
       sigGen |-> sigGen, cmds |-> <<>>, lcd |-> lcd ]

Store(t) ==
    /\ settings' = t.settings
    /\ outputStat' = t.outputStat
    /\ curMenuSel' = t.curMenuSel
    /\ curDispFrame' = t.curDispFrame
    /\ curRow' = t.curRow
    /\ isDispDirty' = t.isDispDirty
    /\ isFrequencyDirty' = t.isFrequencyDirty
    /\ sinceFreqUpdate' = t.sinceFreqUpdate
    /\ sigGen' = t.sigGen
    /\ cmds' = t.cmds
    /\ lcd' = t.lcd

(***************************************************************************)
(* Power-on: the persisted records a device is switched on with            *)
(***************************************************************************)
Image(f0, f1, step, w, ch) ==
    writeToEEPROM([frequency |-> <<f0, f1>>, freqStep |-> step, waveform |-> w,
                   channel |-> ch, checksum |-> 0]).eeprom

\* a valid record at the edges of the frequency range
EdgeImage == Image(maxFreq - 500, 500, 1000, TRI, 1)
\* an EEPROM holding zeros only
BlankImage == [i \in 1..SizeofSettings |-> 0]
\* a valid record whose checksum byte was damaged
BadSumImage == [EdgeImage EXCEPT ![SizeofSettings] = (@ + 1) % 256]

\* the builds and records of the main specification: the build as shipped
\* (no persistence) and a persisting build started on a valid record
Boots == { <<FALSE, BlankImage>>, <<TRUE, EdgeImage>> }

\* the static initialisers: the globals when setup() is entered
PowerOn(enabled) ==
    [ settings |-> IF enabled THEN ZeroSettings ELSE StaticSettings,
      outputStat |-> ON, curMenuSel |-> Function, curDispFrame |-> "HOME_PAGE",
      curRow |-> 0, isDispDirty |-> TRUE, isFrequencyDirty |-> TRUE,
      sinceFreqUpdate |-> 0,
      sigGen |-> [freq |-> <<0, 0>>, mode |-> "UNSET", channel |-> 0],
      cmds |-> <<>>, lcd |-> "NONE" ]

\* the globals are those of the record t
Holds(t) ==
    /\ settings = t.settings
    /\ outputStat = t.outputStat
    /\ curMenuSel = t.curMenuSel
    /\ curDispFrame = t.curDispFrame
    /\ curRow = t.curRow
    /\ isDispDirty = t.isDispDirty
    /\ isFrequencyDirty = t.isFrequencyDirty
    /\ sinceFreqUpdate = t.sinceFreqUpdate
    /\ sigGen = t.sigGen
    /\ cmds = t.cmds
    /\ lcd = t.lcd

\* the state in which the program counter is p, the EEPROM holds e and the
\* settings in memory are s, everything else as at power-on
StartAt(p, enabled, e, s) ==
    /\ ENABLE_EEPROM = enabled
    /\ eeprom = e
    /\ Holds([PowerOn(enabled) EXCEPT !.settings = s])
    /\ pc = p
    /\ encPos = 0
    /\ newPos = 0
    /\ positionExtPrev = 0
    /\ detents = 0
    /\ nWrites = 0
    /\ sinceStaged = NEVER
    /\ polled = FALSE
    /\ lastUsed = <<>>
    /\ ret = <<>>

InitWith(boots) ==
    \E b \in boots : StartAt("setup", b[1], b[2], PowerOn(b[1]).settings)

Init == InitWith(Boots)

(***************************************************************************)
(* setup()                                                                 *)
(***************************************************************************)
\* the ENABLE_EEPROM block of setup(): the settings, the EEPROM and the
\* number of writes it leaves behind
loadSettings_noWrite(e) ==
    LET r == readFromEEPROM(e)
    IN  IF r.ok THEN [settings |-> r.settings, eeprom |-> e, writes |-> 0]
        ELSE [settings |-> resetSettings(r.settings), eeprom |-> e, writes |-> 0]

loadSettings(e) ==
    LET r == readFromEEPROM(e)
        w == writeToEEPROM(resetSettings(r.settings))
    IN  IF r.ok THEN [settings |-> r.settings, eeprom |-> e, writes |-> 0]
        ELSE [settings |-> w.settings, eeprom |-> w.eeprom, writes |-> 1]

\* lines 192-200: the splash screen (2 s), then the AD9833 is programmed
startOutput(m) ==
    LET m1 == setADFreq(m, 0, m.settings.frequency[1])
        m2 == setADFreq(m1, 1, m1.settings.frequency[2])
        m3 == setADChannel(m2, m2.settings.channel)
    IN  [toggleOutput(m3) EXCEPT !.sinceFreqUpdate = AgeCap]

\* setup() from the state m at power-on, on the EEPROM content e
setup(m, enabled, e) ==
    LET l == IF enabled THEN loadSettings(e)
             ELSE [settings |-> m.settings, eeprom |-> e, writes |-> 0]
    IN  [ m |-> startOutput([m EXCEPT !.settings = l.settings]),
          eeprom |-> l.eeprom, writes |-> l.writes ]

Setup ==
    /\ pc = "setup"
    /\ LET r == setup(M, ENABLE_EEPROM, eeprom)
       IN  Store(r.m) /\ eeprom' = r.eeprom /\ nWrites' = nWrites + r.writes
    /\ pc' = "loop"
    /\ lastUsed' = <<>>
    /\ UNCHANGED << ENABLE_EEPROM, encPos, newPos, positionExtPrev, detents,
                    sinceStaged, polled, ret >>

\* The supply is switched off and on again: the globals are initialised anew,
\* the EEPROM keeps its content, and setup() is entered.
PowerCycle ==
    /\ pc = "loop"
    /\ Store(PowerOn(ENABLE_EEPROM))
    /\ pc' = "setup"
    /\ encPos' = 0
    /\ newPos' = 0
    /\ positionExtPrev' = 0
    /\ detents' = 0
    /\ nWrites' = 0
    /\ sinceStaged' = NEVER
    /\ polled' = FALSE
    /\ lastUsed' = <<settings>>
    /\ ret' = <<>>
    /\ UNCHANGED << ENABLE_EEPROM, eeprom >>

(***************************************************************************)
(* loop()                                                                  *)
(***************************************************************************)
\* encBtn.tick(): at most one of the attached handlers runs
buttonTick(m, btn) ==
    CASE btn = "click" -> encPress(m)
      [] btn = "double" -> encDoublePress(m)
      [] btn = "long" -> encLongPress(m)
      [] OTHER -> m

\* enc.getDirection(): compares the position with the one it returned last
getDirection ==
    IF positionExtPrev > 0 THEN "COUNTERCLOCKWISE"
    ELSE IF positionExtPrev < 0 THEN "CLOCKWISE"
    ELSE "NOROTATION"

\* encRotate() ends in changeFreq() in these frames
StagesFreq ==
    \/ curDispFrame = "HOME_PAGE"
    \/ curDispFrame = "SETTING" /\ curMenuSel = Frequency /\ curRow = 0

\* One iteration up to the test encPos != newPos; without a new position it
\* goes on to the display refresh and ends the iteration.
Loop(btn) ==
    /\ pc = "loop"
    /\ LET m1 == commitFreq(buttonTick(M, btn))
       IN  IF encPos # 0
           THEN Store(m1) /\ pc' = "rotate"
           ELSE Store(refresh(m1)) /\ pc' = "loop"
    /\ newPos' = 0
    /\ polled' = TRUE
    /\ UNCHANGED << ENABLE_EEPROM, eeprom, encPos, positionExtPrev, detents,
                    nWrites, sinceStaged, lastUsed, ret >>

LoopIdle == Loop("none")
LoopClick == Loop("click")
LoopDoubleClick == Loop("double")
LoopLongPress == Loop("long")

\* The rest of an iteration that saw a new position: encRotate(), encPos =
\* newPos and the display refresh.
LoopRotate ==
    /\ pc = "rotate"
    /\ Store(refresh(encRotate(M, getDirection)))
    /\ positionExtPrev' = 0
    /\ encPos' = newPos
    /\ newPos' = 0
    /\ pc' = "loop"
    /\ IF StagesFreq
       THEN sinceStaged' = 0 /\ polled' = FALSE
       ELSE UNCHANGED << sinceStaged, polled >>
    /\ UNCHANGED << ENABLE_EEPROM, eeprom, detents, nWrites, lastUsed, ret >>

(***************************************************************************)
(* The encoder interrupt and the clock                                     *)
(***************************************************************************)
\* checkPosition(): enc.tick() moves the position by one detent, d = 1
\* clockwise and d = -1 counterclockwise.  setup() does not read the encoder,
\* so a detent recorded during setup() is taken as recorded right after it.
checkPosition(d) ==
    /\ pc # "setup"
    /\ detents < MaxDetents
    /\ detents' = detents + 1
    /\ encPos' = encPos - d
    /\ positionExtPrev' = positionExtPrev - d
    /\ newPos' = IF pc = "rotate" THEN newPos - d ELSE newPos
    /\ UNCHANGED << ENABLE_EEPROM, eeprom, settings, outputStat, curMenuSel,
                    curDispFrame, curRow, isDispDirty, isFrequencyDirty,
                    sinceFreqUpdate, sigGen, cmds, lcd, pc, nWrites,
                    sinceStaged, polled, lastUsed, ret >>

EncoderCW == checkPosition(1)
EncoderCCW == checkPosition(0 - 1)

\* millis() moves on by TimeStep.  Only the test of line 216 reads the clock,
\* and only while a staged frequency is pending, so time is left standing
\* while none is, and between the two halves of one iteration.
Advance ==
    /\ pc = "loop"
    /\ isFrequencyDirty
    /\ sinceFreqUpdate' = Later(sinceFreqUpdate, TimeStep)
    /\ sinceStaged' = IF sinceStaged = NEVER THEN NEVER ELSE Later(sinceStaged, TimeStep)
    /\ polled' = FALSE
    /\ UNCHANGED << ENABLE_EEPROM, eeprom, settings, outputStat, curMenuSel,
                    curDispFrame, curRow, isDispDirty, isFrequencyDirty, sigGen,
                    cmds, lcd, pc, encPos, newPos, positionExtPrev, detents,
                    nWrites, lastUsed, ret >>

Next ==
    \/ Setup
    \/ LoopIdle
    \/ LoopClick
    \/ LoopDoubleClick
    \/ LoopLongPress
    \/ LoopRotate
    \/ EncoderCW
    \/ EncoderCCW
    \/ Advance
    \/ PowerCycle

Spec == Init /\ [][Next]_vars

\* the iterations of loop() up to the encoder poll, whatever the button did
LoopHead == LoopIdle \/ LoopClick \/ LoopDoubleClick \/ LoopLongPress

\* the build as shipped; the loop runs for ever and the clock moves on
SpecLive == InitWith({ <<FALSE, BlankImage>> }) /\ [][Next]_vars
                 /\ WF_vars(LoopHead) /\ WF_vars(LoopRotate) /\ WF_vars(Advance)

(***************************************************************************)
(* Persistence and checksum on their own: setup() on many persisted        *)
(* records, a save followed by a load, and crc8block on byte blocks        *)
(***************************************************************************)
\* the byte block b with bit k of byte i inverted
FlipBit(b, i, k) ==
    LET w == 2 ^ k
    IN  [b EXCEPT ![i] = IF (@ \div w) % 2 = 1 THEN @ - w ELSE @ + w]

\* the stored checksum equals the one recomputed over all bytes but the last
StoredValid(e) == crc8block(SubSeq(e, 1, Len(e) - 1)) = e[Len(e)]

SampleWords == {0, 1, encFreqStep, maxFreq, 2 ^ 30 - 1}
SampleSettings ==
    [ frequency : SampleWords \X {0, maxFreq - 500, 2 ^ 30 - 1},
      freqStep : {0, encFreqStep, maxFreqStep},
      waveform : {SIN, TRI, 255},
      channel : {0, 1},
      checksum : {0, 27, 255} ]

SampleBytes == {0, 1, 49, 128, 255}
\* the ASCII digits "123456789"
CheckBlock == <<49, 50, 51, 52, 53, 54, 55, 56, 57>>
SampleBlocks ==
    UNION { [1..n -> SampleBytes] : n \in 1..MaxLen }
        \cup { CheckBlock, SubSeq(EdgeImage, 1, SizeofSettings - 1) }

StoreBoots ==
    { <<FALSE, BlankImage>>, <<TRUE, BlankImage>>, <<TRUE, BadSumImage>>,
      <<TRUE, EdgeImage>>, <<TRUE, Image(1, maxFreq, 1, SIN, 0)>> }

InitStore ==
    \/ InitWith(StoreBoots)
    \/ \E s \in SampleSettings : StartAt("save", TRUE, BlankImage, s)
    \/ \E b \in SampleBlocks : StartAt("crc", TRUE, b, ZeroSettings)

\* before the first power-on, one bit of the data bytes of a valid record flips
Corrupt ==
    /\ pc = "setup"
    /\ ENABLE_EEPROM
    /\ ret = <<>>
    /\ lastUsed = <<>>
    /\ StoredValid(eeprom)
    /\ \E i \in 1..(SizeofSettings - 1), k \in 0..7 : eeprom' = FlipBit(eeprom, i, k)
    /\ ret' = <<"corrupted">>
    /\ UNCHANGED << ENABLE_EEPROM, settings, outputStat, curMenuSel, curDispFrame,
                    curRow, isDispDirty, isFrequencyDirty, sinceFreqUpdate, sigGen,
                    cmds, lcd, pc, encPos, newPos, positionExtPrev, detents,
                    nWrites, sinceStaged, polled, lastUsed >>

\* writeToEEPROM() on the settings in memory
Save ==
    /\ pc = "save"
    /\ LET w == writeToEEPROM(settings)
       IN  settings' = w.settings /\ eeprom' = w.eeprom
    /\ nWrites' = nWrites + 1
    /\ pc' = "load"
    /\ UNCHANGED << ENABLE_EEPROM, outputStat, curMenuSel, curDispFrame, curRow,
                    isDispDirty, isFrequencyDirty, sinceFreqUpdate, sigGen, cmds,
                    lcd, encPos, newPos, positionExtPrev, detents, sinceStaged,
                    polled, lastUsed, ret >>

\* readFromEEPROM(); ret keeps its result and the record that was saved
Load ==
    /\ pc = "load"
    /\ LET r == readFromEEPROM(eeprom)
       IN  settings' = r.settings /\ ret' = <<r.ok, settings>>
    /\ pc' = "loaded"
    /\ UNCHANGED << ENABLE_EEPROM, eeprom, outputStat, curMenuSel, curDispFrame,
                    curRow, isDispDirty, isFrequencyDirty, sinceFreqUpdate, sigGen,
                    cmds, lcd, encPos, newPos, positionExtPrev, detents, nWrites,
                    sinceStaged, polled, lastUsed >>

\* crc8block() on the block
Checksum ==
    /\ pc = "crc"
    /\ ret' = <<crc8block(eeprom)>>
    /\ pc' = "flip"
    /\ UNCHANGED << ENABLE_EEPROM, eeprom, settings, outputStat, curMenuSel,
                    curDispFrame, curRow, isDispDirty, isFrequencyDirty,
                    sinceFreqUpdate, sigGen, cmds, lcd, encPos, newPos,
                    positionExtPrev, detents, nWrites, sinceStaged, polled,
                    lastUsed >>

\* one bit of the block is inverted and crc8block() runs again
Recheck ==
    /\ pc = "flip"
    /\ \E i \in 1..Len(eeprom), k \in 0..7 : eeprom' = FlipBit(eeprom, i, k)
    /\ ret' = <<ret[1], crc8block(eeprom')>>
    /\ pc' = "flipped"
    /\ UNCHANGED << ENABLE_EEPROM, settings, outputStat, curMenuSel,
                    curDispFrame, curRow, isDispDirty, isFrequencyDirty,
                    sinceFreqUpdate, sigGen, cmds, lcd, encPos, newPos,
                    positionExtPrev, detents, nWrites, sinceStaged, polled,
                    lastUsed >>

NextStore ==
    \/ Setup
    \/ PowerCycle
    \/ Corrupt
    \/ Save
    \/ Load
    \/ Checksum
    \/ Recheck

SpecStore == InitStore /\ [][NextStore]_vars

(***************************************************************************)
(* The variant with one waveform per channel (src/unnamed/part_001), built *)
(* without ENABLE_EEPROM as it stands.  Its setup() changes none of the    *)
(* globals; it has no step size, no edit row and no debounced commit, so   *)
(* curRow, isFrequencyDirty and sinceFreqUpdate keep their values.         *)
(***************************************************************************)
\* encoder detents the interrupt records in one behaviour of this variant
MaxTurns == 4

\* settings = {channelFreqs[0], channelFreqs[1], SIN, SIN, 0, 0}
StaticSettings_001 ==
    [ frequency |-> <<10000, 500000>>,
      waveform  |-> <<SIN, SIN>>,
      channel   |-> 0,
      checksum  |-> 0 ]

\* the globals of part_001 when loop() is entered first
PowerOn_001 ==
    [ PowerOn(FALSE) EXCEPT !.settings = StaticSettings_001, !.outputStat = OFF,
                            !.isFrequencyDirty = FALSE ]

\* updateDisplay(): showMenu() reads menuItmStr[curMenuSel], past the end of
\* the array when curMenuSel is no menu item, and prints what it finds there
updateDisplay_001(m) ==
    [m EXCEPT !.lcd = IF m.curDispFrame = "MENU" /\ m.curMenuSel >= Len(menuItmStr)
                      THEN "MENU_UNDEFINED" ELSE m.curDispFrame,
              !.isDispDirty = FALSE]

encPress_001(m) ==
    CASE m.curDispFrame = "HOME_PAGE" ->
             LET stat == IF m.outputStat # 0 THEN OFF ELSE ON
             IN  [m EXCEPT !.outputStat = stat,
                           !.sigGen.mode = IF stat # 0 THEN "MODE_ON" ELSE "MODE_OFF",
                           !.cmds = Append(@, <<"setModeSD",
                                        IF stat # 0 THEN "MODE_ON" ELSE "MODE_OFF">>)]
      [] m.curDispFrame = "MENU" ->
             [m EXCEPT !.curDispFrame = "SETTING", !.isDispDirty = TRUE]
      [] m.curDispFrame = "SETTING" ->
             [m EXCEPT !.curDispFrame = "HOME_PAGE", !.isDispDirty = TRUE]

encDoublePress_001(m) ==
    IF m.curDispFrame = "HOME_PAGE"
    THEN [m EXCEPT !.settings.channel = IF m.settings.channel # 0 THEN 0 ELSE 1]
    ELSE m

encLongPress_001(m) ==
    LET t == CASE m.curDispFrame = "HOME_PAGE" -> [m EXCEPT !.curDispFrame = "MENU"]
               [] m.curDispFrame = "MENU" -> [m EXCEPT !.curDispFrame = "HOME_PAGE"]
               [] OTHER -> m
    IN  [t EXCEPT !.isDispDirty = TRUE]

\* encRotate(); (MenuItem)(curMenuSel + 1) is a byte
encRotate_001(m, rotDir) ==
    LET c == m.settings.channel + 1
        curFreq == m.settings.frequency[c]
        arrLen == Len(menuItmStr)
        sel == m.curMenuSel
    IN  CASE m.curDispFrame = "HOME_PAGE" ->
                 [m EXCEPT !.settings.frequency[c] =
                     CASE rotDir = "COUNTERCLOCKWISE" ->
                            IF curFreq + encFreqStep < maxFreq
                            THEN curFreq + encFreqStep ELSE maxFreq
                       [] rotDir = "CLOCKWISE" ->
                            IF curFreq - encFreqStep > 0
                            THEN curFreq - encFreqStep ELSE 0
                       [] OTHER -> curFreq]
          [] m.curDispFrame = "MENU" ->
                 [m EXCEPT !.curMenuSel =
                     CASE rotDir = "COUNTERCLOCKWISE" ->
                            IF sel < arrLen - 1 THEN (sel + 1) % 256 ELSE arrLen - 1
                       [] rotDir = "CLOCKWISE" ->
                            IF sel > 0 THEN (sel + 1) % 256 ELSE Function
                       [] OTHER -> sel,
                           !.isDispDirty = TRUE]
          [] m.curDispFrame = "SETTING" -> m

buttonTick_001(m, btn) ==
    CASE btn = "click" -> encPress_001(m)
      [] btn = "double" -> encDoublePress_001(m)
      [] btn = "long" -> encLongPress_001(m)
      [] OTHER -> m

refresh_001(m) == IF m.isDispDirty THEN updateDisplay_001(m) ELSE m

Init_001 ==
    /\ ENABLE_EEPROM = FALSE
    /\ eeprom = BlankImage
    /\ Holds(PowerOn_001)
    /\ pc = "loop"
    /\ encPos = 0
    /\ newPos = 0
    /\ positionExtPrev = 0
    /\ detents = 0
    /\ nWrites = 0
    /\ sinceStaged = NEVER
    /\ polled = FALSE
    /\ lastUsed = <<>>
    /\ ret = <<>>

\* loop() up to the test encPos != newPos, and to its end without a new position
Loop_001(btn) ==
    /\ pc = "loop"
    /\ LET m1 == buttonTick_001(M, btn)
       IN  IF encPos # 0
           THEN Store(m1) /\ pc' = "rotate"
           ELSE Store(refresh_001(m1)) /\ pc' = "loop"
    /\ newPos' = 0
    /\ UNCHANGED << ENABLE_EEPROM, eeprom, encPos, positionExtPrev, detents,
                    nWrites, sinceStaged, polled, lastUsed, ret >>

LoopIdle_001 == Loop_001("none")
LoopClick_001 == Loop_001("click")
LoopDoubleClick_001 == Loop_001("double")
LoopLongPress_001 == Loop_001("long")

\* the rest of an iteration that saw a new position
LoopRotate_001 ==
    /\ pc = "rotate"
    /\ Store(refresh_001(encRotate_001(M, getDirection)))
    /\ positionExtPrev' = 0
    /\ encPos' = newPos
    /\ newPos' = 0
    /\ pc' = "loop"
    /\ UNCHANGED << ENABLE_EEPROM, eeprom, detents, nWrites, sinceStaged, polled,
                    lastUsed, ret >>

\* checkPosition(): enc.tick() moves the position by one detent
checkPosition_001(d) ==
    /\ detents < MaxTurns
    /\ detents' = detents + 1
    /\ encPos' = encPos - d
    /\ positionExtPrev' = positionExtPrev - d
    /\ newPos' = IF pc = "rotate" THEN newPos - d ELSE newPos
    /\ UNCHANGED << ENABLE_EEPROM, eeprom, settings, outputStat, curMenuSel,
                    curDispFrame, curRow, isDispDirty, isFrequencyDirty,
                    sinceFreqUpdate, sigGen, cmds, lcd, pc, nWrites,
                    sinceStaged, polled, lastUsed, ret >>

EncoderCW_001 == checkPosition_001(1)
EncoderCCW_001 == checkPosition_001(0 - 1)

Next_001 ==
    \/ LoopIdle_001
    \/ LoopClick_001
    \/ LoopDoubleClick_001
    \/ LoopLongPress_001
    \/ LoopRotate_001
    \/ EncoderCW_001
    \/ EncoderCCW_001

Spec_001 == Init_001 /\ [][Next_001]_vars

(***************************************************************************)
(* The step-size editor on its own: the shipped build brought to           *)
(* Setting/Frequency with the edit row on the step and the step turned     *)
(* down to 1, then loop iterations that each handle one detent             *)
(***************************************************************************)
\* rotations handled in one behaviour of the step-size specification
MaxStepTurns == 12

\* one iteration of loop() from m: the button gesture btn, the commit test,
\* encRotate() for a detent in direction rotDir if there was one, the refresh
iteration(m, btn, rotDir) ==
    LET m1 == commitFreq(buttonTick([m EXCEPT !.cmds = <<>>], btn))
    IN  refresh(IF rotDir = "NOROTATION" THEN m1 ELSE encRotate(m1, rotDir))

\* setup(), long press (Menu), clockwise (Frequency), click (Setting), click
\* (row 1), then three detents counterclockwise: 1000 -> 100 -> 10 -> 1
AtStepRow ==
    LET m0 == setup(PowerOn(FALSE), FALSE, BlankImage).m
        m1 == iteration(m0, "long", "NOROTATION")
        m2 == iteration(m1, "none", "CLOCKWISE")
        m3 == iteration(m2, "click", "NOROTATION")
        m4 == iteration(m3, "click", "NOROTATION")
        m5 == iteration(m4, "none", "COUNTERCLOCKWISE")
        m6 == iteration(m5, "none", "COUNTERCLOCKWISE")
    IN  iteration(m6, "none", "COUNTERCLOCKWISE")

InitStep ==
    /\ ENABLE_EEPROM = FALSE
    /\ eeprom = BlankImage
    /\ Holds(AtStepRow)
    /\ pc = "loop"
    /\ encPos = 0
    /\ newPos = 0
    /\ positionExtPrev = 0
    /\ detents = 0
    /\ nWrites = 0
    /\ sinceStaged = NEVER
    /\ polled = TRUE
    /\ lastUsed = <<>>
    /\ ret = <<>>

\* the interrupt records one detent in direction rotDir and the next iteration
\* of loop() handles it; ret lists the directions and the steps they led to
Turn(rotDir) ==
    /\ pc = "loop"
    /\ Len(ret) < MaxStepTurns
    /\ Store(iteration(M, "none", rotDir))
    /\ detents' = detents + 1
    /\ ret' = Append(ret, <<rotDir, settings'.freqStep>>)
    /\ UNCHANGED << ENABLE_EEPROM, eeprom, pc, encPos, newPos, positionExtPrev,
                    nWrites, sinceStaged, polled, lastUsed >>

TurnCW == Turn("CLOCKWISE")
TurnCCW == Turn("COUNTERCLOCKWISE")

NextStep ==
    \/ TurnCW
    \/ TurnCCW

SpecStep == InitStep /\ [][NextStep]_vars

(***************************************************************************)
(* The memory-bank variant (src/FunctionGenerator.ino).  Its setup()       *)
(* changes none of the globals and its struct settings is never read or    *)
(* written; the variable settings holds the globals curFreq, curMemBank    *)
(* and curWaveform instead, outputStat is curOutputStat.  It sends nothing *)
(* to the AD9833 after sigGen.begin().                                     *)
(***************************************************************************)
\* encoder detents the interrupt records in one behaviour of this variant
MaxDetents_ino == 4

memBankFreqs == <<10000, 500000>>

\* (int) of RotaryEncoder::Direction
DirValue(rotDir) ==
    CASE rotDir = "CLOCKWISE" -> 1
      [] rotDir = "COUNTERCLOCKWISE" -> 0 - 1
      [] OTHER -> 0

\* the globals of FunctionGenerator.ino when loop() is entered first
PowerOn_ino ==
    [ PowerOn(FALSE) EXCEPT
        !.settings = [curFreq |-> 0, curMemBank |-> 0, curWaveform |-> SIN],
        !.outputStat = OFF, !.isFrequencyDirty = FALSE ]

updateDisplay_ino(m) == [m EXCEPT !.lcd = m.curDispFrame, !.isDispDirty = FALSE]

encPress_ino(m) ==
    CASE m.curDispFrame = "HOME_PAGE" ->
             [m EXCEPT !.outputStat = IF m.outputStat # 0 THEN OFF ELSE ON]
      [] m.curDispFrame = "MENU" ->
             [m EXCEPT !.curDispFrame = "SETTING", !.isDispDirty = TRUE]
      [] m.curDispFrame = "SETTING" ->
             [m EXCEPT !.curDispFrame = "MENU", !.isDispDirty = TRUE]

encDoublePress_ino(m) ==
    IF m.curDispFrame = "HOME_PAGE"
    THEN LET bank == IF m.settings.curMemBank < 1 THEN m.settings.curMemBank + 1 ELSE 0
         IN  [m EXCEPT !.settings.curMemBank = bank,
                       !.settings.curFreq = memBankFreqs[bank + 1]]
    ELSE m

encLongPress_ino(m) ==
    LET t == CASE m.curDispFrame = "HOME_PAGE" -> [m EXCEPT !.curDispFrame = "MENU"]
               [] m.curDispFrame = "MENU" -> [m EXCEPT !.curDispFrame = "HOME_PAGE"]
               [] OTHER -> m
    IN  [t EXCEPT !.isDispDirty = TRUE]

\* encRotate(); every branch tests rotDir < 0 and takes the else for the rest
encRotate_ino(m, rotDir) ==
    LET up == DirValue(rotDir) < 0
        curFreq == m.settings.curFreq
        arrLen == Len(menuItmStr)
        sel == m.curMenuSel
        w == m.settings.curWaveform
    IN  CASE m.curDispFrame = "HOME_PAGE" ->
                 [m EXCEPT !.settings.curFreq =
                               IF up
                               THEN (IF curFreq + encFreqStep < maxFreq
                                     THEN curFreq + encFreqStep ELSE maxFreq)
                               ELSE (IF curFreq - encFreqStep > 0
                                     THEN curFreq - encFreqStep ELSE 0),
                           !.settings.curMemBank = 2]
          [] m.curDispFrame = "MENU" ->
                 [m EXCEPT !.curMenuSel =
                               IF up
                               THEN (IF sel < arrLen - 1 THEN sel + 1 ELSE arrLen - 1)
                               ELSE (IF sel > 0 THEN sel - 1 ELSE 0),
                           !.isDispDirty = TRUE]
          [] m.curDispFrame = "SETTING" ->
                 IF sel = Function
                 THEN [m EXCEPT !.settings.curWaveform =
                          CASE w = SIN -> IF up THEN CLK ELSE TRI
                            [] w = CLK -> IF up THEN TRI ELSE SIN
                            [] OTHER -> IF up THEN SIN ELSE CLK]
                 ELSE m

buttonTick_ino(m, btn) ==
    CASE btn = "click" -> encPress_ino(m)
      [] btn = "double" -> encDoublePress_ino(m)
      [] btn = "long" -> encLongPress_ino(m)
      [] OTHER -> m

refresh_ino(m) == IF m.isDispDirty THEN updateDisplay_ino(m) ELSE m

Init_ino ==
    /\ ENABLE_EEPROM = TRUE
    /\ eeprom = BlankImage
    /\ Holds(PowerOn_ino)
    /\ pc = "loop"
    /\ encPos = 0
    /\ newPos = 0
    /\ positionExtPrev = 0
    /\ detents = 0
    /\ nWrites = 0
    /\ sinceStaged = NEVER
    /\ polled = FALSE
    /\ lastUsed = <<>>
    /\ ret = <<>>

\* loop() up to the test encPos != newPos, and to its end without a new position
Loop_ino(btn) ==
    /\ pc = "loop"
    /\ LET m1 == buttonTick_ino(M, btn)
       IN  IF encPos # 0
           THEN Store(m1) /\ pc' = "rotate"
           ELSE Store(refresh_ino(m1)) /\ pc' = "loop"
    /\ newPos' = 0
    /\ UNCHANGED << ENABLE_EEPROM, eeprom, encPos, positionExtPrev, detents,
                    nWrites, sinceStaged, polled, lastUsed, ret >>

LoopIdle_ino == Loop_ino("none")
LoopClick_ino == Loop_ino("click")
LoopDoubleClick_ino == Loop_ino("double")
LoopLongPress_ino == Loop_ino("long")

\* the rest of an iteration that saw a new position
LoopRotate_ino ==
    /\ pc = "rotate"
    /\ Store(refresh_ino(encRotate_ino(M, getDirection)))
    /\ positionExtPrev' = 0
    /\ encPos' = newPos
    /\ newPos' = 0
    /\ pc' = "loop"
    /\ UNCHANGED << ENABLE_EEPROM, eeprom, detents, nWrites, sinceStaged, polled,
                    lastUsed, ret >>

\* checkPosition(): enc.tick() moves the position by one detent
checkPosition_ino(d) ==
    /\ detents < MaxDetents_ino
    /\ detents' = detents + 1
    /\ encPos' = encPos - d
    /\ positionExtPrev' = positionExtPrev - d
    /\ newPos' = IF pc = "rotate" THEN newPos - d ELSE newPos
    /\ UNCHANGED << ENABLE_EEPROM, eeprom, settings, outputStat, curMenuSel,
                    curDispFrame, curRow, isDispDirty, isFrequencyDirty,
                    sinceFreqUpdate, sigGen, cmds, lcd, pc, nWrites,
                    sinceStaged, polled, lastUsed, ret >>

EncoderCW_ino == checkPosition_ino(1)
EncoderCCW_ino == checkPosition_ino(0 - 1)

Next_ino ==
    \/ LoopIdle_ino
    \/ LoopClick_ino
    \/ LoopDoubleClick_ino
    \/ LoopLongPress_ino
    \/ LoopRotate_ino
    \/ EncoderCW_ino
    \/ EncoderCCW_ino

Spec_ino == Init_ino /\ [][Next_ino]_vars

(***************************************************************************)
(* The debounce clock at its full width: millis() and lastFreqUpdate as    *)
(* unsigned long counters of 32 bits, each held as its two 16-bit halves.  *)
(* The shipped build has run setup() and its first iteration and stands in *)
(* Home; ret holds the two counters, sinceStaged the time that really      *)
(* passed since changeFreq() ran last.                                     *)
(***************************************************************************)
\* rotations staged in one behaviour of the clock specification
MaxStagings == 2

Word32(hi, lo) == [hi |-> hi, lo |-> lo]

\* millis() after n more milliseconds: a + n modulo 2^32, for n < 2^16
Add32(a, n) ==
    LET lo == a.lo + n
    IN  Word32((a.hi + lo \div 65536) % 65536, lo % 65536)

\* a subtraction that stops at zero instead of wrapping
Sub32_saturating(a, b) ==
    IF a.hi < b.hi \/ (a.hi = b.hi /\ a.lo < b.lo)
    THEN Word32(0, 0)
    ELSE LET lo == a.lo - b.lo
             borrow == IF lo < 0 THEN 1 ELSE 0
         IN  Word32(a.hi - b.hi - borrow, (lo + 65536) % 65536)

\* millis() - lastFreqUpdate on unsigned long: a - b modulo 2^32
Sub32(a, b) ==
    LET lo == a.lo - b.lo
        borrow == IF lo < 0 THEN 1 ELSE 0
    IN  Word32((a.hi - b.hi - borrow + 65536) % 65536, (lo + 65536) % 65536)

\* the difference as the value the test of line 216 compares with
\* freqUpdateDelay, exact up to AgeCap
Age(w) == IF w.hi > 0 \/ w.lo > AgeCap THEN AgeCap ELSE w.lo

\* the globals, with millis() - lastFreqUpdate computed from the counters
MClock == [M EXCEPT !.sinceFreqUpdate = Age(Sub32(ret.millis, ret.lastFreqUpdate))]

\* values of millis() around the wrap at 2^32, at 2^31 and far from both
WrapStarts ==
    { Word32(65535, 65536 - k) : k \in {1, 200, 201, 400, 401, 402, 601} }
        \cup { Word32(0, 5000), Word32(32767, 65536 - 201) }

\* setup() and the first iteration of loop(), which commits the initial flag
AfterFirstIteration ==
    iteration(setup(PowerOn(FALSE), FALSE, BlankImage).m, "none", "NOROTATION")

InitWrap ==
    /\ ENABLE_EEPROM = FALSE
    /\ eeprom = BlankImage
    /\ Holds(AfterFirstIteration)
    /\ pc = "loop"
    /\ encPos = 0
    /\ newPos = 0
    /\ positionExtPrev = 0
    /\ detents = 0
    /\ nWrites = 0
    /\ sinceStaged = NEVER
    /\ polled = TRUE
    /\ lastUsed = <<>>
    /\ \E w \in WrapStarts : ret = [millis |-> w, lastFreqUpdate |-> Word32(0, 0)]

\* an iteration of loop() that handles one detent in Home: the commit test,
\* then changeFreq() with lastFreqUpdate = millis()
Stage(rotDir) ==
    /\ pc = "loop"
    /\ detents < MaxStagings
    /\ Store(iteration(MClock, "none", rotDir))
    /\ ret' = [ret EXCEPT !.lastFreqUpdate = ret.millis]
    /\ detents' = detents + 1
    /\ sinceStaged' = 0
    /\ polled' = FALSE
    /\ UNCHANGED << ENABLE_EEPROM, eeprom, pc, encPos, newPos, positionExtPrev,
                    nWrites, lastUsed >>

StageCW == Stage("CLOCKWISE")
StageCCW == Stage("COUNTERCLOCKWISE")

\* an iteration of loop() without gesture or rotation
Poll ==
    /\ pc = "loop"
    /\ Store(iteration(MClock, "none", "NOROTATION"))
    /\ polled' = TRUE
    /\ UNCHANGED << ENABLE_EEPROM, eeprom, pc, encPos, newPos, positionExtPrev,
                    detents, nWrites, sinceStaged, lastUsed, ret >>

\* millis() moves on by dt while a staged frequency is pending
Tick(dt) ==
    /\ pc = "loop"
    /\ isFrequencyDirty
    /\ sinceStaged # NEVER
    /\ sinceStaged < AgeCap
    /\ ret' = [ret EXCEPT !.millis = Add32(ret.millis, dt)]
    /\ sinceStaged' = Later(sinceStaged, dt)
    /\ polled' = FALSE
    /\ UNCHANGED << ENABLE_EEPROM, eeprom, settings, outputStat, curMenuSel,
                    curDispFrame, curRow, isDispDirty, isFrequencyDirty,
                    sinceFreqUpdate, sigGen, cmds, lcd, pc, encPos, newPos,
                    positionExtPrev, detents, nWrites, lastUsed >>

TickHalf == Tick(TimeStep)
TickHalfAndOne == Tick(TimeStep + 1)

NextWrap ==
    \/ StageCW
    \/ StageCCW
    \/ Poll
    \/ TickHalf
    \/ TickHalfAndOne

SpecWrap == InitWrap /\ [][NextWrap]_vars

(***************************************************************************)
(* Properties                                                              *)
(***************************************************************************)
\* the setFrequency commands among the commands c
SetFreqCmds(c) == SelectSeq(c, LAMBDA x : x[1] = "setFrequency")
FreqInRange(f) == 0 < f /\ f <= maxFreq
ActiveFreq == settings.frequency[settings.channel + 1]

\* C1: started on frequencies in [1, maxFreq] and a power-of-ten step, both
\* channel frequencies stay in (0, maxFreq] whatever the gestures.
C1_FrequencyInRange ==
    pc # "setup" =>
        /\ FreqInRange(settings.frequency[1])
        /\ FreqInRange(settings.frequency[2])

\* C1 witness: channel 0 was raised from maxFreq - 500 into the ceiling and
\* channel 1 lowered from 500 onto the floor value, the step.
C1_Witness ==
    /\ ENABLE_EEPROM
    /\ pc = "loop"
    /\ settings.frequency = << maxFreq, settings.freqStep >>

\* C2: a loop step taken less than freqUpdateDelay after the last staging
\* sends no setFrequency; every staging restarts the window.
C2_NoCommitInsideWindow ==
    [][ ((LoopHead \/ LoopRotate) /\ sinceStaged # NEVER
            /\ sinceStaged < freqUpdateDelay)
        => SetFreqCmds(cmds') = <<>> ]_vars

\* C2 witness: half a window after a staging the loop has polled and the
\* AD9833 still holds the old frequency.
C2_Witness ==
    /\ isFrequencyDirty
    /\ polled
    /\ sinceStaged = TimeStep
    /\ sigGen.freq[settings.channel + 1] # ActiveFreq

\* the step sent setFrequency once, for the active channel and its staged
\* frequency, and cleared the dirty flag
CommittedOnce ==
    /\ SetFreqCmds(cmds') = << <<"setFrequency", settings'.channel,
                                 settings'.frequency[settings'.channel + 1]>> >>
    /\ ~isFrequencyDirty'

\* C3 as claimed: a tick at or after lastStagedTime + freqUpdateDelay commits.
C3_CommitAtOrAfterDeadline ==
    [][ (LoopHead /\ sinceStaged # NEVER /\ isFrequencyDirty
            /\ sinceStaged >= freqUpdateDelay)
        => CommittedOnce ]_vars

\* C3 amended: after a staging, a tick later than lastStagedTime +
\* freqUpdateDelay commits exactly once with the active channel and its staged
\* value and clears the dirty flag; every other tick, the one exactly on the
\* deadline included, sends no setFrequency and leaves the flag alone.
C3_CommitAfterDeadline ==
    [][ (LoopHead /\ sinceStaged # NEVER)
        => IF isFrequencyDirty /\ sinceStaged > freqUpdateDelay
           THEN CommittedOnce
           ELSE /\ SetFreqCmds(cmds') = <<>>
                /\ isFrequencyDirty' = isFrequencyDirty ]_vars

\* C3 witness: the tick after the window has just committed the staged value.
C3_Witness ==
    /\ sinceStaged # NEVER
    /\ sinceStaged > freqUpdateDelay
    /\ polled
    /\ ~isFrequencyDirty
    /\ cmds = << <<"setFrequency", settings.channel, ActiveFreq>> >>

\* C4: with the loop running and the clock advancing, a staged frequency is
\* eventually committed (or the power is cycled) with no further input.
C4_CommitEventually ==
    (isFrequencyDirty /\ sinceStaged # NEVER)
        ~> (~isFrequencyDirty \/ sinceStaged = NEVER)

\* C4 witness: a staged frequency has reached the AD9833 and nothing is pending.
C4_Witness ==
    /\ sinceStaged # NEVER
    /\ ~isFrequencyDirty
    /\ detents > 0
    /\ encPos = 0
    /\ sigGen.freq[settings.channel + 1] = ActiveFreq
    /\ cmds = <<>>

\* the configuration of two Settings records is the same
SameConfig(a, b) ==
    /\ a.frequency = b.frequency
    /\ a.freqStep = b.freqStep
    /\ a.waveform = b.waveform
    /\ a.channel = b.channel

\* C5: with persistence enabled, the settings setup() loads after a power
\* cycle are the ones in use before it.
C5_SettingsSurvivePowerCycle ==
    [][ (pc = "setup" /\ ENABLE_EEPROM /\ lastUsed # <<>>)
        => SameConfig(settings', lastUsed[1]) ]_vars

\* C6: at startup of a persisting build, a record whose stored checksum
\* differs from the one recomputed over the other bytes is answered by the
\* reset of the settings and exactly one write, after which the record is
\* valid and reads back as the settings in memory; a valid record is loaded
\* as it is, with no reset and no write
C6_RecoverAtStartup ==
    [][ (Setup /\ ENABLE_EEPROM) =>
            IF StoredValid(eeprom)
            THEN /\ readFromEEPROM(eeprom).ok
                 /\ nWrites' = nWrites
                 /\ eeprom' = eeprom
                 /\ settings' = SettingsOf(eeprom)
            ELSE /\ ~readFromEEPROM(eeprom).ok
                 /\ nWrites' = nWrites + 1
                 /\ settings' = withChecksum(resetSettings(SettingsOf(eeprom)))
                 /\ StoredValid(eeprom')
                 /\ readFromEEPROM(eeprom').ok
                 /\ readFromEEPROM(eeprom').settings = settings' ]_vars

C6_Witness ==
    /\ pc = "loop"
    /\ ENABLE_EEPROM
    /\ nWrites = 1
    /\ ret = <<"corrupted">>
    /\ StoredValid(eeprom)

\* the factory configuration
Factory(s) ==
    /\ s.frequency[1] = 10000
    /\ s.frequency[2] \in {1000000, 500000}
    /\ s.freqStep = 1000
    /\ s.waveform = SIN
    /\ s.channel = 0

\* C7: the settings in memory after the reset of a rejected record are the
\* factory configuration, whatever bytes the record held
C7_ResetGivesFactory ==
    (pc = "loop" /\ ENABLE_EEPROM /\ nWrites = 1) => Factory(settings)

\* C8: a record that is saved and then loaded from the unchanged store is
\* accepted and equals, field for field, the record that was saved
C8_SaveLoadRoundTrip ==
    pc = "loaded" => (ret[1] /\ settings = ret[2] /\ SettingsBytes(settings) = eeprom)

C8_Witness ==
    /\ pc = "loaded"
    /\ ret[1]
    /\ settings.frequency = <<2 ^ 30 - 1, maxFreq - 500>>
    /\ settings.waveform = 255
    /\ settings.checksum # 0

\* the CRC of polynomial 0x31 and initial value 0xFF, no final XOR, computed
\* one message bit at a time, the most significant bit of each byte first
RefBit ==
    [r \in 0..255 |-> [bit \in 0..1 |->
        IF ((r \div 128) + bit) % 2 = 1 THEN Xor((r * 2) % 256, 49) ELSE (r * 2) % 256]]

RefByte ==
    [r \in 0..255 |-> [byte \in 0..255 |->
        LET bits == [k \in 1..8 |-> (byte \div (2 ^ (8 - k))) % 2]
        IN  RefBit[RefBit[RefBit[RefBit[RefBit[RefBit[RefBit[RefBit[r][bits[1]]
                ][bits[2]]][bits[3]]][bits[4]]][bits[5]]][bits[6]]][bits[7]]][bits[8]]]]

RECURSIVE RefFrom(_, _, _)
RefFrom(r, block, k) ==
    IF k > Len(block) THEN r ELSE RefFrom(RefByte[r][block[k]], block, k + 1)

RefCrc8(block) == RefFrom(255, block, 1)

\* C9: crc8block is the CRC-8 of polynomial 0x31, initial value 0xFF, most
\* significant bit first, no final XOR (0xF7 on "123456789"); inverting one
\* bit of a block changes its checksum; a valid record with one inverted
\* data bit is rejected at startup
C9_Crc8DetectsBitFlips ==
    /\ pc = "flip" => (ret[1] = RefCrc8(eeprom) /\ (eeprom = CheckBlock => ret[1] = 247))
    /\ pc = "flipped" => (ret[2] = RefCrc8(eeprom) /\ ret[1] # ret[2])
    /\ (pc = "setup" /\ ret = <<"corrupted">>) => ~readFromEEPROM(eeprom).ok
    /\ (pc = "loop" /\ ret = <<"corrupted">>) => nWrites = 1

C9_Witness ==
    /\ pc = "flipped"
    /\ Len(eeprom) = Len(CheckBlock)
    /\ ret[1] = 247

C11_MenuBound_001 ==
    /\ [](curMenuSel \in 0..(Len(menuItmStr) - 1))
    /\ [][ (LoopRotate_001 /\ curDispFrame = "MENU" /\ getDirection = "CLOCKWISE")
           => curMenuSel' <= curMenuSel ]_vars

\* C11, first half alone: the selection is a menu item
C11_MenuInRange_001 == curMenuSel \in 0..(Len(menuItmStr) - 1)

\* six detents clockwise, then six counterclockwise, and the steps claimed
ClaimedTurns ==
    [i \in 1..12 |-> IF i <= 6 THEN "CLOCKWISE" ELSE "COUNTERCLOCKWISE"]
ClaimedSteps ==
    <<10, 100, 1000, 10000, 100000, 100000, 10000, 1000, 100, 10, 1, 1>>

\* the first n rotations were the claimed ones
TurnedAsClaimed(n) ==
    /\ n <= Len(ret)
    /\ \A i \in 1..n : ret[i][1] = ClaimedTurns[i]

\* C12: from freqStep = 1 in Setting/Frequency with the edit row on the step,
\* clockwise rotations give 10, 100, 1000, 10000, 100000 and then 100000
\* again; counterclockwise rotations then give 10000, 1000, 100, 10, 1 and
\* then 1 again
C12_StepProgression ==
    \A n \in 1..Len(ClaimedSteps) :
        TurnedAsClaimed(n) => ret[n][2] = ClaimedSteps[n]

C12_Witness ==
    /\ TurnedAsClaimed(Len(ClaimedSteps))
    /\ settings.freqStep = 1
    /\ curDispFrame = "SETTING"
    /\ curMenuSel = Frequency
    /\ curRow = 1

\* the powers of ten from 1 to maxFreqStep
StepSizes == { Pow10(k) : k \in 0..Log10(maxFreqStep) }

ModeCmds(c) == SelectSeq(c, LAMBDA x : x[1] = "setMode")
\* the AD9833 mode of a waveform
ModeOf(w) ==
    CASE w = SIN -> "MODE_SINE"
      [] w = CLK -> "MODE_SQUARE1"
      [] w = TRI -> "MODE_TRIANGLE"

\* C14: a click in Home flips outputStat and sends one setMode: MODE_OFF when
\* the output goes off, the mode of the current waveform when it goes on, the
\* three waveforms having three modes of their own; a second click flips
\* outputStat back
C14_ClickTogglesOutput ==
    /\ [](Cardinality({ModeOf(w) : w \in {SIN, CLK, TRI}} \cup {"MODE_OFF"}) = 4)
    /\ [][ (LoopClick /\ curDispFrame = "HOME_PAGE")
           => /\ outputStat \in {OFF, ON}
              /\ outputStat' = (IF outputStat = ON THEN OFF ELSE ON)
              /\ settings'.waveform = settings.waveform
              /\ ModeCmds(cmds') =
                    << <<"setMode", IF outputStat' = OFF THEN "MODE_OFF"
                                    ELSE ModeOf(settings.waveform)>> >>
              /\ sigGen'.mode = ModeCmds(cmds')[1][2] ]_vars

C14_Witness ==
    /\ curDispFrame = "HOME_PAGE"
    /\ outputStat = ON
    /\ settings.waveform = CLK
    /\ cmds = << <<"setMode", "MODE_SQUARE1">> >>

\* C15: a rotation handled in Setting/Function while the output is on sends
\* the mode of the new waveform to the AD9833, which then emits it
C15_RotationReappliesMode ==
    [][ (LoopRotate /\ curDispFrame = "SETTING" /\ curMenuSel = Function
            /\ outputStat = ON /\ getDirection # "NOROTATION")
        => /\ ModeCmds(cmds') = << <<"setMode", ModeOf(settings'.waveform)>> >>
           /\ sigGen'.mode = ModeOf(settings'.waveform) ]_vars

\* the waveform after w, clockwise and counterclockwise
NextWaveform(w) ==
    CASE w = SIN -> CLK
      [] w = CLK -> TRI
      [] w = TRI -> SIN
PrevWaveform(w) ==
    CASE w = SIN -> TRI
      [] w = TRI -> CLK
      [] w = CLK -> SIN

\* C16: once setup() has run the waveform is SIN, CLK or TRI; a rotation
\* handled in Setting/Function maps SIN -> CLK -> TRI -> SIN clockwise and
\* SIN -> TRI -> CLK -> SIN counterclockwise; clockwise followed by
\* counterclockwise gives the waveform back
C16_WaveformCycle ==
    /\ [](pc # "setup" => settings.waveform \in {SIN, CLK, TRI})
    /\ []((pc # "setup" /\ curDispFrame = "SETTING" /\ curMenuSel = Function)
            => encRotate(encRotate(M, "CLOCKWISE"), "COUNTERCLOCKWISE").settings.waveform
                   = settings.waveform)
    /\ [][ (LoopRotate /\ curDispFrame = "SETTING" /\ curMenuSel = Function)
           => settings'.waveform =
                CASE getDirection = "CLOCKWISE" -> NextWaveform(settings.waveform)
                  [] getDirection = "COUNTERCLOCKWISE" -> PrevWaveform(settings.waveform)
                  [] OTHER -> settings.waveform ]_vars

C16_Witness ==
    /\ ~ENABLE_EEPROM
    /\ pc = "loop"
    /\ curDispFrame = "SETTING"
    /\ curMenuSel = Function
    /\ settings.waveform = SIN
    /\ detents = 3
    /\ encPos = 0
    /\ outputStat = ON

\* C17: a long press leads from Home to Menu; from Menu to Home with the
\* selection back on Function; from Setting/Frequency to Menu with the edit
\* row back on 0; in any other Setting it changes neither frame, selection
\* nor row
C17_LongPress ==
    [][ LoopLongPress =>
          CASE curDispFrame = "HOME_PAGE" ->
                 /\ curDispFrame' = "MENU"
                 /\ curMenuSel' = curMenuSel
                 /\ curRow' = curRow
            [] curDispFrame = "MENU" ->
                 /\ curDispFrame' = "HOME_PAGE"
                 /\ curMenuSel' = Function
                 /\ curRow' = curRow
            [] curDispFrame = "SETTING" /\ curMenuSel = Frequency ->
                 /\ curDispFrame' = "MENU"
                 /\ curMenuSel' = curMenuSel
                 /\ curRow' = 0
            [] OTHER ->
                 /\ curDispFrame' = curDispFrame
                 /\ curMenuSel' = curMenuSel
                 /\ curRow' = curRow ]_vars

C17_Witness ==
    /\ pc = "loop"
    /\ curDispFrame = "MENU"
    /\ curMenuSel = Frequency
    /\ curRow = 0
    /\ settings.freqStep # encFreqStep
    /\ lcd = "MENU"

\* C18: a click leads from Menu to Setting with the selection kept; in
\* Setting/Frequency it toggles the edit row and stays; in any other Setting
\* it leads to Menu; in Menu and Setting it changes neither outputStat nor
\* any field of the settings
C18_Click ==
    [][ (LoopClick /\ curDispFrame \in {"MENU", "SETTING"}) =>
          /\ outputStat' = outputStat
          /\ settings' = settings
          /\ curMenuSel' = curMenuSel
          /\ CASE curDispFrame = "MENU" ->
                    curDispFrame' = "SETTING" /\ curRow' = curRow
               [] curDispFrame = "SETTING" /\ curMenuSel = Frequency ->
                    /\ curDispFrame' = "SETTING"
                    /\ curRow \in {0, 1}
                    /\ curRow' = 1 - curRow
               [] OTHER ->
                    curDispFrame' = "MENU" /\ curRow' = curRow ]_vars

C18_Witness ==
    /\ pc = "loop"
    /\ curDispFrame = "SETTING"
    /\ curMenuSel = Frequency
    /\ curRow = 1
    /\ cmds = <<>>
    /\ encPos = 0

\* the setActiveFrequency commands among the commands c
ChannelCmds(c) == SelectSeq(c, LAMBDA x : x[1] = "setActiveFrequency")

\* C19: a double click in Home swaps settings.channel and makes the new
\* channel the active one of the AD9833, the two frequencies, the step and the
\* waveform staying as they are; in Menu and Setting a double click changes
\* nothing: the handler returns the state it got, and the iteration is the
\* one without a gesture
C19_DoubleClick ==
    /\ []((pc # "setup" /\ curDispFrame # "HOME_PAGE") => encDoublePress(M) = M)
    /\ [][ LoopDoubleClick =>
             IF curDispFrame = "HOME_PAGE"
             THEN /\ settings.channel \in {0, 1}
                  /\ settings'.channel = 1 - settings.channel
                  /\ settings'.frequency = settings.frequency
                  /\ settings'.freqStep = settings.freqStep
                  /\ settings'.waveform = settings.waveform
                  /\ ChannelCmds(cmds') = << <<"setActiveFrequency", settings'.channel>> >>
                  /\ sigGen'.channel = settings'.channel
                  /\ sigGen'.mode = sigGen.mode
             ELSE LoopIdle ]_vars

C19_Witness ==
    /\ ~ENABLE_EEPROM
    /\ pc = "loop"
    /\ curDispFrame = "HOME_PAGE"
    /\ settings.channel = 1
    /\ sigGen.channel = 1
    /\ cmds = << <<"setActiveFrequency", 1>> >>

\* C20: a rotation handled in Setting/Phase or Setting/Version changes no
\* field of the settings, neither frame, selection nor row, neither
\* outputStat nor isFrequencyDirty, and sends nothing to the AD9833
C20_RotationWithoutEffect ==
    /\ []((pc # "setup" /\ curDispFrame = "SETTING" /\ curMenuSel \in {Phase, Version})
            => \A d \in Direction : encRotate(M, d) = M)
    /\ [][ (LoopRotate /\ curDispFrame = "SETTING" /\ curMenuSel \in {Phase, Version})
           => /\ settings' = settings
              /\ curDispFrame' = curDispFrame
              /\ curMenuSel' = curMenuSel
              /\ curRow' = curRow
              /\ outputStat' = outputStat
              /\ isFrequencyDirty' = isFrequencyDirty
              /\ sigGen' = sigGen
              /\ cmds' = <<>> ]_vars

\* C20 witness: loop() stands before encRotate() in Setting/Phase with a
\* clockwise detent to handle, the third of the behaviour, and the handler
\* gives back the state it gets
C20_Witness ==
    /\ pc = "rotate"
    /\ curDispFrame = "SETTING"
    /\ curMenuSel = Phase
    /\ detents = 3
    /\ getDirection = "CLOCKWISE"
    /\ encRotate(M, getDirection) = M

\* C21: setup() sends the AD9833 the frequency of channel 0, the frequency of
\* channel 1 and the active channel of the settings, and one setMode, the
\* mode of the current waveform, which is the mode the AD9833 is left in
C21_StartupAppliesWaveform ==
    [][ Setup =>
          /\ SetFreqCmds(cmds') = << <<"setFrequency", 0, settings'.frequency[1]>>,
                                     <<"setFrequency", 1, settings'.frequency[2]>> >>
          /\ ChannelCmds(cmds') = << <<"setActiveFrequency", settings'.channel>> >>
          /\ ModeCmds(cmds') = << <<"setMode", ModeOf(settings'.waveform)>> >>
          /\ sigGen'.mode = ModeOf(settings'.waveform) ]_vars

\* C21, the frequencies and the channel alone
C21_StartupSendsSettings ==
    [][ Setup =>
          /\ SetFreqCmds(cmds') = << <<"setFrequency", 0, settings'.frequency[1]>>,
                                     <<"setFrequency", 1, settings'.frequency[2]>> >>
          /\ ChannelCmds(cmds') = << <<"setActiveFrequency", settings'.channel>> >>
          /\ sigGen'.freq = settings'.frequency
          /\ sigGen'.channel = settings'.channel ]_vars

\* C22: every detent the interrupt records is answered by one application of
\* the rotation handler: n clockwise detents recorded since power-on, all of
\* them before loop() reads the position, raise the frequency shown in Home
\* from f to f + n * freqStep when that is not above maxFreq
C22_OneStepPerDetent ==
    [][ (LoopRotate /\ curDispFrame = "HOME_PAGE" /\ detents > 0
            /\ positionExtPrev = 0 - detents /\ newPos = 0
            /\ ActiveFreq + detents * settings.freqStep <= maxFreq)
        => settings'.frequency[settings.channel + 1]
               = ActiveFreq + detents * settings.freqStep ]_vars

\* C22, one detent between two polls: the frequency moves by one step
C22_SingleDetentOneStep ==
    [][ (LoopRotate /\ curDispFrame = "HOME_PAGE" /\ positionExtPrev = 0 - 1
            /\ ActiveFreq + settings.freqStep <= maxFreq)
        => settings'.frequency[settings.channel + 1]
               = ActiveFreq + settings.freqStep ]_vars

\* C23: in FunctionGenerator.ino, once curFreq is in [1, maxFreq] no rotation
\* in Home and no double click takes it out of (0, maxFreq]
C23_FreqAboveZero_ino ==
    [][ FreqInRange(settings.curFreq) => FreqInRange(settings'.curFreq) ]_vars

\* C23, the upper bound alone: curFreq never exceeds maxFreq
C23_FreqAtMostMax_ino == settings.curFreq \in 0..maxFreq

\* the step is an iteration of loop() whose RUNNING_FREQUENCY block sent a
\* frequency to the AD9833
TickCommits == LoopHead /\ SetFreqCmds(cmds') # <<>>

\* C24: loop() sends no frequency before changeFreq() has staged one since
\* power-on, and after a commit none again before the next staging: a commit
\* finds the dirty flag set and clears it, and only a staging sets it
C24_CommitOnlyWhenStaged ==
    /\ [][ TickCommits => sinceStaged # NEVER ]_vars
    /\ [][ TickCommits => (isFrequencyDirty /\ ~isFrequencyDirty') ]_vars
    /\ [][ (pc # "setup" /\ pc' # "setup" /\ ~isFrequencyDirty /\ isFrequencyDirty')
           => (LoopRotate /\ StagesFreq) ]_vars

\* C24, from the first commit on: a commit finds the dirty flag set and clears
\* it, and after setup() only a staging sets the flag
C24_CommitBetweenStagings ==
    /\ [][ TickCommits => (isFrequencyDirty /\ ~isFrequencyDirty') ]_vars
    /\ [][ (pc # "setup" /\ pc' # "setup" /\ ~isFrequencyDirty /\ isFrequencyDirty')
           => (LoopRotate /\ StagesFreq) ]_vars

\* the gestures of the encoder button, "none" for an iteration without one
Gestures == {"none", "click", "double", "long"}

\* C25: a button handler or rotation handler that changes curDispFrame or
\* curMenuSel leaves isDispDirty set, and every iteration of loop() ends with
\* isDispDirty cleared and the frame drawn last being the current one
C25_DisplayRefreshed ==
    /\ [](pc = "loop" =>
            \A btn \in Gestures :
                LET b == buttonTick(M, btn)
                    c == commitFreq(b)
                    e == refresh(c)
                IN  /\ (b.curDispFrame # curDispFrame \/ b.curMenuSel # curMenuSel)
                           => b.isDispDirty
                    /\ ~e.isDispDirty
                    /\ e.lcd = e.curDispFrame
                    /\ \A d \in Direction :
                           LET r == encRotate(c, d)
                               f == refresh(r)
                           IN  /\ (r.curDispFrame # b.curDispFrame
                                      \/ r.curMenuSel # b.curMenuSel) => r.isDispDirty
                               /\ ~f.isDispDirty
                               /\ f.lcd = f.curDispFrame)
    /\ [][ ((LoopHead /\ pc' = "loop") \/ LoopRotate)
           => (~isDispDirty' /\ lcd' = curDispFrame') ]_vars
    /\ [][ ((LoopHead \/ LoopRotate)
               /\ (curDispFrame' # curDispFrame \/ curMenuSel' # curMenuSel))
           => (isDispDirty' \/ lcd' = curDispFrame') ]_vars

\* C25 witness: a click in Menu on Phase has led to the Setting frame, which
\* the same iteration has drawn
C25_Witness ==
    /\ pc = "loop"
    /\ curDispFrame = "SETTING"
    /\ curMenuSel = Phase
    /\ lcd = "SETTING"
    /\ ~isDispDirty
    /\ encPos = 0

\* C26: once setup() has run, whenever no staged frequency is pending the
\* AD9833 holds, for each of the two channels, the frequency the settings
\* hold for it
C26_HardwareAgreesWhenClean ==
    (pc # "setup" /\ ~isFrequencyDirty) => sigGen.freq = settings.frequency

\* C26, the active channel alone
C26_ActiveChannelAgrees ==
    (pc # "setup" /\ ~isFrequencyDirty) => sigGen.freq[settings.channel + 1] = ActiveFreq

\* C27: a rotation handled in Setting/Function leaves outputStat as it is,
\* and once setup() has run nothing changes outputStat but a click in Home
C27_RotationKeepsOutput ==
    /\ [][ (LoopRotate /\ curDispFrame = "SETTING" /\ curMenuSel = Function)
           => outputStat' = outputStat ]_vars
    /\ [][ (pc # "setup" /\ pc' # "setup" /\ outputStat' # outputStat)
           => (LoopClick /\ curDispFrame = "HOME_PAGE") ]_vars

\* C27, outside Setting/Function: there only a click in Home changes outputStat
C27_OnlyClickElsewhere ==
    [][ (pc # "setup" /\ pc' # "setup" /\ outputStat' # outputStat
            /\ ~(curDispFrame = "SETTING" /\ curMenuSel = Function))
        => (LoopClick /\ curDispFrame = "HOME_PAGE") ]_vars

\* C28: a rotation that ends in changeFreq() (Home, or Setting/Frequency with
\* the edit row on the frequency) never raises the frequency of the active
\* channel when it is counterclockwise and never lowers it when it is
\* clockwise
C28_DirectionMonotone ==
    [][ (LoopRotate /\ StagesFreq) =>
          CASE getDirection = "COUNTERCLOCKWISE" ->
                 settings'.frequency[settings.channel + 1] <= ActiveFreq
            [] getDirection = "CLOCKWISE" ->
                 settings'.frequency[settings.channel + 1] >= ActiveFreq
            [] OTHER -> TRUE ]_vars

\* C28, clockwise alone
C28_ClockwiseNeverLowers ==
    [][ (LoopRotate /\ StagesFreq /\ getDirection = "CLOCKWISE")
        => settings'.frequency[settings.channel + 1] >= ActiveFreq ]_vars

\* C28 in the build as shipped, started on the static initialisers
C28_DirectionMonotoneShipped ==
    [][ ~ENABLE_EEPROM =>
          ((LoopRotate /\ StagesFreq /\ getDirection = "COUNTERCLOCKWISE")
              => settings'.frequency[settings.channel + 1] <= ActiveFreq) ]_vars

\* C29: once setup() has run, the mode the AD9833 was sent last is MODE_OFF
\* while outputStat is OFF and the mode of settings.waveform while it is ON
C29_ModeFollowsOutput ==
    pc # "setup" =>
        /\ outputStat \in {OFF, ON}
        /\ outputStat = OFF => sigGen.mode = "MODE_OFF"
        /\ outputStat = ON => sigGen.mode = ModeOf(settings.waveform)

\* C29 witness: the waveform was turned from SIN to TRI in Setting/Function
\* and the output is on, the AD9833 emitting the triangle
C29_Witness ==
    /\ ~ENABLE_EEPROM
    /\ pc = "loop"
    /\ outputStat = ON
    /\ settings.waveform = TRI
    /\ sigGen.mode = "MODE_TRIANGLE"
    /\ curDispFrame = "SETTING"
    /\ encPos = 0

\* C30: curRow is 0 or 1, and it is 0 wherever the frame is not Setting or
\* the selection is not Frequency; while the program runs curMenuSel changes
\* only in steps taken in the Menu frame
C30_EditRow ==
    /\ [](curRow \in {0, 1})
    /\ [](~(curDispFrame = "SETTING" /\ curMenuSel = Frequency) => curRow = 0)
    /\ [][ (pc' # "setup" /\ curMenuSel' # curMenuSel) => curDispFrame = "MENU" ]_vars

\* C30 witness: the step was edited on row 1 of Setting/Frequency, and two
\* long presses have led back to Home with the selection on Function and the
\* row on 0
C30_Witness ==
    /\ ~ENABLE_EEPROM
    /\ pc = "loop"
    /\ curDispFrame = "HOME_PAGE"
    /\ curMenuSel = Function
    /\ curRow = 0
    /\ settings.freqStep = 10 * encFreqStep
    /\ encPos = 0

\* C31: at power-on and after setup() the frame is Home and the selection
\* Function; from every state at most two gestures (a click or a long press,
\* then a long press) lead back to Home; and in every state the frame is one
\* of the three and a click or a long press leads to another of them
C31_NoTrapFrame ==
    /\ [](pc = "setup" => (curDispFrame = "HOME_PAGE" /\ curMenuSel = Function))
    /\ [][ Setup => (curDispFrame' = "HOME_PAGE" /\ curMenuSel' = Function) ]_vars
    /\ [](pc # "setup" =>
            \E g1 \in {"none", "click", "long"}, g2 \in {"none", "long"} :
                buttonTick(buttonTick(M, g1), g2).curDispFrame = "HOME_PAGE")
    /\ [](pc # "setup" =>
            /\ curDispFrame \in DisplayFrame
            /\ \E g \in {"click", "long"} :
                   buttonTick(M, g).curDispFrame \in DisplayFrame \ {curDispFrame})

\* C31 witness: in Setting/Version a click followed by a long press leads to
\* Home, and neither gesture alone does
C31_Witness ==
    /\ pc = "loop"
    /\ curDispFrame = "SETTING"
    /\ curMenuSel = Version
    /\ buttonTick(buttonTick(M, "click"), "long").curDispFrame = "HOME_PAGE"
    /\ \A g \in Gestures : buttonTick(M, g).curDispFrame # "HOME_PAGE"

\* a staged frequency is pending and more than freqUpdateDelay has really
\* passed since it was staged
CommitDue ==
    isFrequencyDirty /\ sinceStaged # NEVER /\ sinceStaged > freqUpdateDelay

\* C32: with millis() and lastFreqUpdate counted modulo 2^32, an iteration of
\* loop() commits exactly when a staged frequency is pending and more than
\* freqUpdateDelay has passed since the staging, also when millis() has
\* wrapped in between: it neither commits earlier nor fails to commit then
C32_DebounceAcrossWrap ==
    /\ [][ (Poll \/ StageCW \/ StageCCW)
           => ((SetFreqCmds(cmds') # <<>>) <=> CommitDue) ]_vars
    /\ [][ Poll => IF CommitDue THEN CommittedOnce
                   ELSE isFrequencyDirty' = isFrequencyDirty ]_vars

\* C32 witness: the frequency was staged before the wrap and committed after
\* it, millis() being the smaller number of the two
C32_Witness ==
    /\ ret.lastFreqUpdate.hi = 65535
    /\ ret.millis.hi = 0
    /\ sinceStaged > freqUpdateDelay
    /\ polled
    /\ ~isFrequencyDirty
    /\ cmds = << <<"setFrequency", settings.channel, ActiveFreq>> >>

\* C32 second witness state: after the wrap and inside the window the loop has
\* polled and the staged frequency is still pending
C32_PendingAcrossWrap ==
    /\ ret.lastFreqUpdate.hi = 65535
    /\ ret.millis.hi = 0
    /\ sinceStaged = freqUpdateDelay
    /\ polled
    /\ isFrequencyDirty

====
